---- MODULE Spec2Model ----
(***************************************************************************)
(* Chunk streaming of WorldCanvas (src/src/components/WorldCanvas.tsx):    *)
(* the registry `loaded`, the in-flight set, the load queue, the scene     *)
(* node worldGroup, the load sequences started by loadChunkAt, and the     *)
(* timers set by ensureChunksAround and attemptLoad.  Everything runs on   *)
(* one thread: an action is one task of the event loop (the effect body,   *)
(* an animation frame, a timer callback, a promise continuation).          *)
(***************************************************************************)
EXTENDS Integers, Sequences, FiniteSets, Bags, TLC

\* ---------------------------------------------------------------- constants

\* const VIEW_RADIUS = 6 (the view radius of EnsureSpec)
VIEW_RADIUS == 6
\* const maxRetries = 3
maxRetries == 3

\* ------------------------------------------------------------------- bounds

\* Spec, the streaming state machine with failures, retries and disposal:
\* its view radius, the ensureChunksAround calls in one behaviour (the two at
\* start-up included), the failures injected in one behaviour (network, body,
\* materializer, generator) and the attempts awaiting the network at once
Radius == 0
MaxEnsure == 5
MaxFail == 3
MaxOutstanding == 3
\* EastSpec, one camera step on a grid of view radius EastRadius
EastRadius == 1
EastMoves == 2
EastFail == 1
EastOutstanding == 1
\* the camera's chunk coordinate stays in 0..MaxCx x 0..MaxCz
MaxCx == 2
MaxCz == 0
\* RetrySpec, the streaming state machine with the camera going back and
\* forth between two chunks, which lets one sequence use up its retries
RetryEnsure == 6
RetryFail == 4
RetryOutstanding == 4
RetryCx == 1

\* ------------------------------------------------------- coordinate helpers

Abs(n) == IF n < 0 THEN -n ELSE n

Digit(d) ==
  CASE d = 0 -> "0" [] d = 1 -> "1" [] d = 2 -> "2" [] d = 3 -> "3"
    [] d = 4 -> "4" [] d = 5 -> "5" [] d = 6 -> "6" [] d = 7 -> "7"
    [] d = 8 -> "8" [] d = 9 -> "9"

DigitVal(c) ==
  CASE c = "0" -> 0 [] c = "1" -> 1 [] c = "2" -> 2 [] c = "3" -> 3
    [] c = "4" -> 4 [] c = "5" -> 5 [] c = "6" -> 6 [] c = "7" -> 7
    [] c = "8" -> 8 [] c = "9" -> 9 [] OTHER -> -1

RECURSIVE NatToString(_)
NatToString(n) ==
  IF n < 10 THEN <<Digit(n)>> ELSE NatToString(n \div 10) \o <<Digit(n % 10)>>

\* `${n}` for an integer n: a string is a sequence of characters
NumToString(n) == IF n < 0 THEN <<"-">> \o NatToString(-n) ELSE NatToString(n)

\* keyOf = (cx, cz) => `${cx},${cz}`
keyOf(cx, cz) == NumToString(cx) \o <<",">> \o NumToString(cz)

\* key.split(','): the pieces between the commas
RECURSIVE Split(_)
Split(s) ==
  IF \E i \in 1..Len(s) : s[i] = ","
    THEN LET i == CHOOSE j \in 1..Len(s) :
                    s[j] = "," /\ \A m \in 1..(j - 1) : s[m] # ","
         IN  <<SubSeq(s, 1, i - 1)>> \o Split(SubSeq(s, i + 1, Len(s)))
    ELSE <<s>>

RECURSIVE DigitsValue(_, _)
DigitsValue(s, acc) ==
  IF s = << >> \/ DigitVal(Head(s)) < 0 THEN acc
  ELSE DigitsValue(Tail(s), 10 * acc + DigitVal(Head(s)))

\* parseInt(s, 10): an optional sign, then the leading digits; "NaN" if none
parseInt(s) ==
  LET neg  == s # << >> /\ Head(s) = "-"
      body == IF s # << >> /\ Head(s) \in {"-", "+"} THEN Tail(s) ELSE s
  IN  IF body = << >> \/ DigitVal(Head(body)) < 0 THEN "NaN"
      ELSE IF neg THEN -DigitsValue(body, 0) ELSE DigitsValue(body, 0)

\* const [gx, gz] = key.split(',').map((n) => parseInt(n, 10))
KeyCoords(key) ==
  LET parts == Split(key)
  IN  <<parseInt(parts[1]), parseInt(parts[2])>>

\* ------------------------------------------------------ ensureChunksAround

\* the scan with `<` for `<=` in both loops
ScanOffsetsOpen(R) ==
  [i \in 1..((2 * R) * (2 * R)) |->
     <<((i - 1) % (2 * R)) - R, ((i - 1) \div (2 * R)) - R>>]

\* the (dx, dz) pairs in the order of the two nested loops: dz outer, dx inner
ScanOffsets(R) ==
  [i \in 1..((2 * R + 1) * (2 * R + 1)) |->
     <<((i - 1) % (2 * R + 1)) - R, ((i - 1) \div (2 * R + 1)) - R>>]

\* priority = Math.max(0, VIEW_RADIUS - Math.sqrt(dx*dx + dz*dz)).  A priority
\* p lies in [0, R] and is kept as the integer q = (R - p)^2 = min(dx^2+dz^2, R^2),
\* which is exact: p1 > p2 iff q1 < q2, and p = 0 iff q = R^2.
Priority(R, dx, dz) ==
  IF dx * dx + dz * dz < R * R THEN dx * dx + dz * dz ELSE R * R

\* the comparator (a, b) => a.priority - b.priority
HigherPriorityAscending(a, b) == a.priority > b.priority

\* the comparator (a, b) => b.priority - a.priority is negative: a sorts before b
HigherPriority(a, b) == a.priority < b.priority

\* the candidates: every scanned chunk whose key is neither loaded nor in flight
Candidates(R, cx, cz, ld, infl) ==
  LET offs == ScanOffsets(R)
      all  == [i \in 1..Len(offs) |->
                 [x |-> cx + offs[i][1], z |-> cz + offs[i][2],
                  priority |-> Priority(R, offs[i][1], offs[i][2])]]
      Keep(c) == ~(keyOf(c.x, c.z) \in DOMAIN ld \/ keyOf(c.x, c.z) \in infl)
  IN  SelectSeq(all, Keep)

\* an element of s that no element of s sorts before
TopOf(s) ==
  LET ps == {s[i].priority : i \in 1..Len(s)}
      p  == CHOOSE q \in ps : \A r \in ps : ~HigherPriority([priority |-> r], [priority |-> q])
  IN  [priority |-> p]

\* s.sort((a, b) => b.priority - a.priority).  Array.prototype.sort is stable:
\* the elements that nothing sorts before come first, in the order they had,
\* then the others, sorted the same way
RECURSIVE SortByPriority(_)
SortByPriority(s) ==
  IF s = << >> THEN << >>
  ELSE LET top == TopOf(s)
           Tied(c) == ~HigherPriority(top, c)
           Behind(c) == HigherPriority(top, c)
       IN  SelectSeq(s, Tied) \o SortByPriority(SelectSeq(s, Behind))

\* chunksToLoad after the sort
chunksToLoad(R, cx, cz, ld, infl) == SortByPriority(Candidates(R, cx, cz, ld, infl))

\* the prune test at VIEW_RADIUS instead of VIEW_RADIUS + 1
TooFarNoHysteresis(R, key, cx, cz) ==
  LET g == KeyCoords(key)
  IN  Abs(g[1] - cx) > R \/ Abs(g[2] - cz) > R

\* the prune test of one registry key against the camera chunk
TooFar(R, key, cx, cz) ==
  LET g == KeyCoords(key)
  IN  Abs(g[1] - cx) > R + 1 \/ Abs(g[2] - cz) > R + 1

\* chunksToRemove: the registry keys that fail the keep test
chunksToRemove(R, cx, cz, ld) == {k \in DOMAIN ld : TooFar(R, k, cx, cz)}

\* ------------------------------------------------------------------- state

VARIABLES
  pc,              \* "mount" | "frame0" | "running" | "unmounted"
  disposed,        \* let disposed
  camera,          \* chunk coordinate of camera.position, <<ccx, ccz>>
  lastChunk,       \* <<lastChunkX, lastChunkZ>>, or "NaN" before the first frame
  loaded,          \* the Map loaded: key -> group
  worldGroup,      \* the groups attached to worldGroup
  inflight,        \* the Set inflight
  chunkLoadQueue,  \* the Map chunkLoadQueue: key -> {priority, retries}
  attempts,        \* bag of attemptLoad activations that are suspended
  loadTimers,      \* pending load-stagger timers, one entry per call
  removeTimers,    \* bag of pending removal timers: the key, and the camera
                   \* chunk of the call that set the timer
  nEnsure,         \* ensureChunksAround calls so far
  nFail,           \* failures injected so far
  last,            \* the task that ran last, and the error it caught if any
  cfg              \* the bounds of the specification that is run

vars == <<pc, disposed, camera, lastChunk, loaded, worldGroup, inflight,
          chunkLoadQueue, attempts, loadTimers, removeTimers, nEnsure, nFail,
          last, cfg>>

\* Math.round(CAMERA_INITIAL_POSITION / CHUNK): the camera starts in this chunk
InitChunk == <<0, 0>>

EmptyMap == [k \in {} |-> 0]

MapSet(m, k, v) == [x \in (DOMAIN m) \cup {k} |-> IF x = k THEN v ELSE m[x]]

MapDelete(m, k) == [x \in (DOMAIN m) \ {k} |-> m[x]]

\* attempts suspended in `await fetch(...)` or `await res.arrayBuffer()`
Outstanding == {a \in BagToSet(attempts) : a.pc \in {"fetch", "body"}}

NumOutstanding == BagCardinality([a \in Outstanding |-> attempts[a]])

\* the state at the start of the effect body
Start ==
  /\ pc = "mount"
  /\ disposed = FALSE
  /\ camera = InitChunk
  /\ lastChunk = "NaN"
  /\ loaded = EmptyMap
  /\ worldGroup = {}
  /\ inflight = {}
  /\ chunkLoadQueue = EmptyMap
  /\ attempts = EmptyBag
  /\ loadTimers = << >>
  /\ removeTimers = EmptyBag
  /\ nEnsure = 0
  /\ nFail = 0
  /\ last = [op |-> "none", key |-> << >>, err |-> "none"]

Init ==
  /\ Start
  /\ cfg = [radius |-> Radius, maxEnsure |-> MaxEnsure, maxFail |-> MaxFail,
            maxOutstanding |-> MaxOutstanding, maxCx |-> MaxCx, maxCz |-> MaxCz]

\* --------------------------------------------------------------- operations

\* ensureChunksAround(cx, cz): one setTimeout(index * 50) per sorted candidate
\* and one setTimeout(index * 10) per key to prune
ensureChunksAround(R, cx, cz) ==
  LET list == chunksToLoad(R, cx, cz, loaded, inflight)
  IN  /\ loadTimers' = IF list = << >> THEN loadTimers
                       ELSE Append(loadTimers, [list |-> list, pos |-> 1])
      /\ removeTimers' = removeTimers (+)
           SetToBag({[key |-> k, at |-> <<cx, cz>>] : k \in chunksToRemove(R, cx, cz, loaded)})
      /\ nEnsure' = nEnsure + 1

\* "Initial chunks": the call in the effect body, before the first frame
InitialChunks ==
  /\ pc = "mount"
  /\ ensureChunksAround(cfg.radius, InitChunk[1], InitChunk[2])
  /\ pc' = "frame0"
  /\ last' = [op |-> "ensure", key |-> keyOf(InitChunk[1], InitChunk[2]), err |-> "none"]
  /\ UNCHANGED <<disposed, camera, lastChunk, loaded, worldGroup, inflight,
                 chunkLoadQueue, attempts, nFail, cfg>>

\* the chunks the camera can be in after one frame of movement
Reach(c) ==
  {d \in (0..cfg.maxCx) \X (0..cfg.maxCz) : Abs(d[1] - c[1]) <= 1 /\ Abs(d[2] - c[2]) <= 1}

\* updateLoop: one animation frame.  The first frame runs inside the effect
\* body with a zero delta, so the camera does not move in it.
updateLoop(c) ==
  /\ pc \in {"frame0", "running"}
  /\ c \in (IF pc = "frame0" THEN {camera} ELSE Reach(camera))
  /\ camera' = c
  /\ pc' = "running"
  /\ IF lastChunk = "NaN" \/ c[1] # lastChunk[1] \/ c[2] # lastChunk[2]
       THEN /\ nEnsure < cfg.maxEnsure
            /\ lastChunk' = c
            /\ ensureChunksAround(cfg.radius, c[1], c[2])
            /\ last' = [op |-> "ensure", key |-> keyOf(c[1], c[2]), err |-> "none"]
       ELSE /\ UNCHANGED <<lastChunk, loadTimers, removeTimers, nEnsure, cfg>>
            /\ last' = [op |-> "frame", key |-> << >>, err |-> "none"]
  /\ UNCHANGED <<disposed, loaded, worldGroup, inflight, chunkLoadQueue,
                 attempts, nFail, cfg>>

\* a load-stagger timer may fire once no timer set earlier with a delay that
\* is not longer is still pending
CanFire(i) ==
  \A j \in 1..(i - 1) : loadTimers[j].pos > loadTimers[i].pos

PopLoadTimer(i) ==
  IF loadTimers[i].pos = Len(loadTimers[i].list)
    THEN SubSeq(loadTimers, 1, i - 1) \o SubSeq(loadTimers, i + 1, Len(loadTimers))
    ELSE [loadTimers EXCEPT ![i].pos = @ + 1]

\* loadChunkAt without the registry test
LoadGuardNoLoaded(key) == ~(key \in inflight \/ disposed)

\* loadChunkAt without the in-flight test
LoadGuardNoInflight(key) == ~(key \in DOMAIN loaded \/ disposed)

\* the guard of loadChunkAt
LoadGuard(key) == ~(key \in DOMAIN loaded \/ key \in inflight \/ disposed)

\* the callback of a load-stagger timer: if (!disposed) loadChunkAt(x, z, priority),
\* which runs up to the first await of attemptLoad(0)
LoadTimerFires(i) ==
  /\ pc \in {"running", "unmounted"}
  /\ i \in 1..Len(loadTimers)
  /\ CanFire(i)
  /\ LET c   == loadTimers[i].list[loadTimers[i].pos]
         key == keyOf(c.x, c.z)
     IN  /\ loadTimers' = PopLoadTimer(i)
         /\ IF ~disposed /\ LoadGuard(key)
              THEN /\ NumOutstanding < cfg.maxOutstanding
                   /\ chunkLoadQueue' =
                        MapSet(chunkLoadQueue, key, [priority |-> c.priority, retries |-> 0])
                   /\ inflight' = inflight \cup {key}
                   /\ attempts' = attempts (+)
                        SetToBag({[key |-> key, retryCount |-> 0, pc |-> "fetch"]})
                   /\ last' = [op |-> "load", key |-> key, err |-> "none"]
              ELSE /\ UNCHANGED <<chunkLoadQueue, inflight, attempts>>
                   /\ last' = [op |-> "loadSkipped", key |-> key, err |-> "none"]
  /\ UNCHANGED <<pc, disposed, camera, lastChunk, loaded, worldGroup,
                 removeTimers, nEnsure, nFail, cfg>>

\* the group built for a key: told apart from the key's other attached groups
NewGroup(key, prov) ==
  [key |-> key, prov |-> prov,
   n |-> Cardinality({g \in worldGroup : g.key = key})]

\* worldGroup.add(group); loaded.set(key, group)
Publish(key, prov) ==
  /\ worldGroup' = worldGroup \cup {NewGroup(key, prov)}
  /\ loaded' = MapSet(loaded, key, NewGroup(key, prov))

\* the finally block without inflight.delete(key)
FinallyQueueOnly(key) ==
  /\ inflight' = inflight
  /\ chunkLoadQueue' = MapDelete(chunkLoadQueue, key)

\* finally { inflight.delete(key); chunkLoadQueue.delete(key); }
Finally(key) ==
  /\ inflight' = inflight \ {key}
  /\ chunkLoadQueue' = MapDelete(chunkLoadQueue, key)

\* the retry test with one retry less
ShouldRetryOneLess(a) == a.retryCount < maxRetries - 1 /\ ~disposed

\* the retry test of the catch block
ShouldRetry(a) == a.retryCount < maxRetries /\ ~disposed

\* the fallback of the catch block: generateChunk and the two PaintLayer calls,
\* then, if (!disposed), buildInstancedChunk and the publication; an exception
\* of any of them is caught and logged
Fallback(a, err) ==
  \E genOk \in BOOLEAN :
    IF genOk /\ ~disposed
      THEN /\ Publish(a.key, "Local")
           /\ last' = [op |-> "publishLocal", key |-> a.key, err |-> err]
      ELSE /\ UNCHANGED <<loaded, worldGroup>>
           /\ last' = [op |-> "fallbackDropped", key |-> a.key, err |-> err]

\* catch (err) { ... } finally { ... } of attemptLoad, for the attempt a:
\* either the retry timer is set, or the fallback runs
Catch(a, err) ==
  /\ IF ShouldRetry(a)
       THEN /\ attempts' = (attempts (-) SetToBag({a})) (+)
                             SetToBag({[a EXCEPT !.pc = "backoff"]})
            /\ UNCHANGED <<loaded, worldGroup>>
            /\ last' = [op |-> "retryScheduled", key |-> a.key, err |-> err]
       ELSE /\ attempts' = attempts (-) SetToBag({a})
            /\ Fallback(a, err)
  /\ Finally(a.key)

\* an injected failure
Fail ==
  /\ nFail < cfg.maxFail
  /\ nFail' = nFail + 1

\* `await fetch(...)` resolves with a response: clearTimeout, then the res.ok test
FetchResponds(a, ok) ==
  /\ a \in BagToSet(attempts)
  /\ a.pc = "fetch"
  /\ IF ok
       THEN /\ attempts' = (attempts (-) SetToBag({a})) (+)
                             SetToBag({[a EXCEPT !.pc = "body"]})
            /\ last' = [op |-> "response", key |-> a.key, err |-> "none"]
            /\ UNCHANGED <<loaded, worldGroup, inflight, chunkLoadQueue, nFail>>
       ELSE /\ Fail
            /\ Catch(a, "retryable")
  /\ UNCHANGED <<pc, disposed, camera, lastChunk, loadTimers, removeTimers,
                 nEnsure, cfg>>

\* `await fetch(...)` rejects: a transport error
FetchRejects(a) ==
  /\ a \in BagToSet(attempts)
  /\ a.pc = "fetch"
  /\ Fail
  /\ Catch(a, "retryable")
  /\ UNCHANGED <<pc, disposed, camera, lastChunk, loadTimers, removeTimers,
                 nEnsure, cfg>>

\* the 10 s timer of the attempt fires: controller.abort() rejects the fetch
FetchTimesOut(a) ==
  /\ a \in BagToSet(attempts)
  /\ a.pc = "fetch"
  /\ Fail
  /\ Catch(a, "retryable")
  /\ UNCHANGED <<pc, disposed, camera, lastChunk, loadTimers, removeTimers,
                 nEnsure, cfg>>

\* the success path without `if (disposed) return`
MaterializeNoDisposedTest(a) ==
  \/ /\ attempts' = attempts (-) SetToBag({a})
     /\ Publish(a.key, "Remote")
     /\ Finally(a.key)
     /\ last' = [op |-> "publishRemote", key |-> a.key, err |-> "none"]
     /\ UNCHANGED nFail
  \/ /\ Fail
     /\ Catch(a, "materialize")

\* the grid is valid: if (disposed) return; else buildInstancedChunk, which
\* may throw into the catch block, and the publication
Materialize(a) ==
  IF disposed
    THEN /\ attempts' = attempts (-) SetToBag({a})
         /\ Finally(a.key)
         /\ last' = [op |-> "dropped", key |-> a.key, err |-> "none"]
         /\ UNCHANGED <<loaded, worldGroup, nFail>>
    ELSE \/ /\ attempts' = attempts (-) SetToBag({a})
            /\ Publish(a.key, "Remote")
            /\ Finally(a.key)
            /\ last' = [op |-> "publishRemote", key |-> a.key, err |-> "none"]
            /\ UNCHANGED nFail
         \/ /\ Fail
            /\ Catch(a, "materialize")

\* `await res.arrayBuffer()` settles.  body: "reject", or the class of the
\* byte length: "empty" (0), "short" (not CHUNK^3), "full" (CHUNK^3)
BodySettles(a, body) ==
  /\ a \in BagToSet(attempts)
  /\ a.pc = "body"
  /\ IF body = "full"
       THEN Materialize(a)
       ELSE /\ Fail
            /\ Catch(a, "retryable")
  /\ UNCHANGED <<pc, disposed, camera, lastChunk, loadTimers, removeTimers,
                 nEnsure, cfg>>

\* the callback of a retry timer: if (!disposed && inflight.has(key)) attemptLoad(retryCount + 1)
RetryTimerFires(a) ==
  /\ a \in BagToSet(attempts)
  /\ a.pc = "backoff"
  /\ IF ~disposed /\ a.key \in inflight
       THEN /\ NumOutstanding < cfg.maxOutstanding
            /\ attempts' = (attempts (-) SetToBag({a})) (+)
                 SetToBag({[a EXCEPT !.retryCount = @ + 1, !.pc = "fetch"]})
            /\ last' = [op |-> "retry", key |-> a.key, err |-> "none"]
       ELSE /\ attempts' = attempts (-) SetToBag({a})
            /\ last' = [op |-> "retrySkipped", key |-> a.key, err |-> "none"]
  /\ UNCHANGED <<pc, disposed, camera, lastChunk, loaded, worldGroup, inflight,
                 chunkLoadQueue, loadTimers, removeTimers, nEnsure, nFail, cfg>>

\* the callback of the removal timer t: it reads the registry, not the camera
RemoveTimerFires(t) ==
  /\ pc \in {"running", "unmounted"}
  /\ BagIn(t, removeTimers)
  /\ removeTimers' = removeTimers (-) SetToBag({t})
  /\ IF t.key \in DOMAIN loaded
       THEN /\ worldGroup' = worldGroup \ {loaded[t.key]}
            /\ loaded' = MapDelete(loaded, t.key)
            /\ last' = [op |-> "pruned", key |-> t.key, err |-> "none"]
       ELSE /\ UNCHANGED <<worldGroup, loaded>>
            /\ last' = [op |-> "pruneSkipped", key |-> t.key, err |-> "none"]
  /\ UNCHANGED <<pc, disposed, camera, lastChunk, inflight, chunkLoadQueue,
                 attempts, loadTimers, nEnsure, nFail, cfg>>

\* the cleanup function of the effect
Cleanup ==
  /\ pc = "running"
  /\ pc' = "unmounted"
  /\ disposed' = TRUE
  /\ chunkLoadQueue' = EmptyMap
  /\ inflight' = {}
  /\ loaded' = EmptyMap
  /\ last' = [op |-> "cleanup", key |-> << >>, err |-> "none"]
  /\ UNCHANGED <<camera, lastChunk, worldGroup, attempts, loadTimers,
                 removeTimers, nEnsure, nFail, cfg>>

Next ==
  \/ InitialChunks
  \/ \E c \in (0..MaxCx) \X (0..MaxCz) : updateLoop(c)
  \/ \E i \in 1..Len(loadTimers) : LoadTimerFires(i)
  \/ \E a \in BagToSet(attempts), ok \in BOOLEAN : FetchResponds(a, ok)
  \/ \E a \in BagToSet(attempts) : FetchRejects(a)
  \/ \E a \in BagToSet(attempts) : FetchTimesOut(a)
  \/ \E a \in BagToSet(attempts), body \in {"reject", "empty", "short", "full"} :
       BodySettles(a, body)
  \/ \E a \in BagToSet(attempts) : RetryTimerFires(a)
  \/ \E t \in BagToSet(removeTimers) : RemoveTimerFires(t)
  \/ Cleanup

Spec == Init /\ [][Next]_vars

\* ------------------------------------------- ensureChunksAround on its own

\* registry keys and in-flight keys the inputs are drawn from: chunks inside
\* the view square of some camera chunk, on its rim, one and two chunks outside
SampleLoaded == {<<0, 0>>, <<-6, 0>>, <<9, -2>>, <<1, 8>>}

SampleInflight == {<<1, 0>>, <<-5, 3>>, <<8, 1>>}

RemoteGroup(key) == [key |-> key, prov |-> "Remote", n |-> 0]

\* a running viewer with some chunks loaded and some loads in flight, about
\* to see the camera in a new chunk
EnsureInit ==
  /\ pc = "running"
  /\ disposed = FALSE
  /\ camera \in (0..MaxCx) \X (0..MaxCz)
  /\ lastChunk = camera
  /\ \E L \in SUBSET SampleLoaded, F \in SUBSET SampleInflight :
       /\ loaded = [k \in {keyOf(c[1], c[2]) : c \in L} |-> RemoteGroup(k)]
       /\ worldGroup = {RemoteGroup(keyOf(c[1], c[2])) : c \in L}
       /\ inflight = {keyOf(c[1], c[2]) : c \in F}
       /\ chunkLoadQueue = [k \in {keyOf(c[1], c[2]) : c \in F} |->
                              [priority |-> 0, retries |-> 0]]
       /\ attempts = SetToBag({[key |-> keyOf(c[1], c[2]), retryCount |-> 0,
                                pc |-> "fetch"] : c \in F})
  /\ loadTimers = << >>
  /\ removeTimers = EmptyBag
  /\ nEnsure = 0
  /\ nFail = 0
  /\ last = [op |-> "none", key |-> << >>, err |-> "none"]
  /\ cfg = [radius |-> VIEW_RADIUS, maxEnsure |-> 1, maxFail |-> 0,
            maxOutstanding |-> 0, maxCx |-> MaxCx, maxCz |-> MaxCz]

EnsureNext == \E c \in (0..MaxCx) \X (0..MaxCz) : updateLoop(c)

EnsureSpec == EnsureInit /\ [][EnsureNext]_vars

\* ------------------------------------------------ one camera step to the east

\* the keys of the view square around a chunk
ViewKeys(R, c) ==
  {keyOf(c[1] + dx, c[2] + dz) : dx \in (-R)..R, dz \in (-R)..R}

\* the viewer after a cold start in which every load succeeded: the view
\* square around the initial chunk is Live and nothing is pending
EastInit ==
  /\ pc = "running"
  /\ disposed = FALSE
  /\ camera = InitChunk
  /\ lastChunk = InitChunk
  /\ loaded = [k \in ViewKeys(EastRadius, InitChunk) |-> RemoteGroup(k)]
  /\ worldGroup = {RemoteGroup(k) : k \in ViewKeys(EastRadius, InitChunk)}
  /\ inflight = {}
  /\ chunkLoadQueue = EmptyMap
  /\ attempts = EmptyBag
  /\ loadTimers = << >>
  /\ removeTimers = EmptyBag
  /\ nEnsure = 0
  /\ nFail = 0
  /\ last = [op |-> "none", key |-> << >>, err |-> "none"]
  /\ cfg = [radius |-> EastRadius, maxEnsure |-> EastMoves, maxFail |-> EastFail,
            maxOutstanding |-> EastOutstanding, maxCx |-> MaxCx, maxCz |-> MaxCz]

EastNext ==
  \/ \E c \in (0..MaxCx) \X (0..MaxCz) : updateLoop(c)
  \/ \E i \in 1..Len(loadTimers) : LoadTimerFires(i)
  \/ \E a \in BagToSet(attempts), ok \in BOOLEAN : FetchResponds(a, ok)
  \/ \E a \in BagToSet(attempts) : FetchRejects(a)
  \/ \E a \in BagToSet(attempts) : FetchTimesOut(a)
  \/ \E a \in BagToSet(attempts), body \in {"reject", "empty", "short", "full"} :
       BodySettles(a, body)
  \/ \E a \in BagToSet(attempts) : RetryTimerFires(a)
  \/ \E t \in BagToSet(removeTimers) : RemoveTimerFires(t)
  \/ Cleanup

EastSpec == EastInit /\ [][EastNext]_vars

\* ------------------------------------------- a sequence through its retries

RetryInit ==
  /\ Start
  /\ cfg = [radius |-> Radius, maxEnsure |-> RetryEnsure, maxFail |-> RetryFail,
            maxOutstanding |-> RetryOutstanding, maxCx |-> RetryCx, maxCz |-> 0]

\* the camera stays within one chunk of every key, so no removal timer is set
RetryNext ==
  \/ InitialChunks
  \/ \E c \in (0..MaxCx) \X (0..MaxCz) : updateLoop(c)
  \/ \E i \in 1..Len(loadTimers) : LoadTimerFires(i)
  \/ \E a \in BagToSet(attempts), ok \in BOOLEAN : FetchResponds(a, ok)
  \/ \E a \in BagToSet(attempts) : FetchRejects(a)
  \/ \E a \in BagToSet(attempts) : FetchTimesOut(a)
  \/ \E a \in BagToSet(attempts), body \in {"reject", "empty", "short", "full"} :
       BodySettles(a, body)
  \/ \E a \in BagToSet(attempts) : RetryTimerFires(a)
  \/ Cleanup

RetrySpec == RetryInit /\ [][RetryNext]_vars

\* ------------------------------------------------- fetches and timers end

\* the keys of the chunks the camera can be in
CameraKeys == {keyOf(x, z) : x \in 0..MaxCx, z \in 0..MaxCz}

\* the network settles the await the attempt a is suspended in: the fetch
\* resolves, rejects or is aborted by the 10 s timer, the body read settles
Settle(a) ==
  \/ \E ok \in BOOLEAN : FetchResponds(a, ok)
  \/ FetchRejects(a)
  \/ FetchTimesOut(a)
  \/ \E body \in {"reject", "empty", "short", "full"} : BodySettles(a, body)

\* every fetch eventually resolves or rejects (at the latest when its 10 s
\* timer aborts it) and every timer eventually fires
Fairness ==
  /\ \A k \in CameraKeys :
       WF_vars(\E a \in BagToSet(attempts) : a.key = k /\ Settle(a))
  /\ WF_vars(\E a \in BagToSet(attempts) : RetryTimerFires(a))
  /\ WF_vars(\E i \in 1..Len(loadTimers) : LoadTimerFires(i))
  /\ WF_vars(\E t \in BagToSet(removeTimers) : RemoveTimerFires(t))

LiveSpec == Init /\ [][Next]_vars /\ Fairness

\* ------------------------------------------------------------------ claims

\* the attempts of the load sequences of one key, suspended ones and those
\* waiting for their retry timer
SequencesOf(key) == {a \in BagToSet(attempts) : a.key = key}

NumSequencesOf(key) == BagCardinality([a \in SequencesOf(key) |-> attempts[a]])

\* C1: before disposal the groups attached to worldGroup are exactly the
\* values of the registry `loaded`, so no publication overwrites a record and
\* leaves its group attached.
C1_AttachedAreRegistered ==
  ~disposed => worldGroup = {loaded[k] : k \in DOMAIN loaded}

\* C2: for every key at most one load sequence is active at any moment,
\* counting a sequence with a fetch outstanding or a retry timer pending.
C2_OneSequencePerKey ==
  \A a \in BagToSet(attempts) : NumSequencesOf(a.key) <= 1

\* C3: once disposed, every later step leaves the registry and the in-flight
\* set empty and attaches no group to worldGroup.
C3_NothingAfterDisposal ==
  [][disposed' => /\ loaded' = EmptyMap
                  /\ inflight' = {}
                  /\ (disposed => worldGroup' \subseteq worldGroup)]_vars

\* a fetch that was outstanding at disposal has delivered a valid body since
C3_Witness ==
  /\ disposed
  /\ last.op = "dropped"
  /\ loaded = EmptyMap
  /\ inflight = {}

\* C4: a retry timer that fires while the viewer is not disposed makes the
\* next fetch attempt of its sequence; it is skipped only after disposal.
C4_RetryTimerRetries ==
  last.op = "retrySkipped" => disposed

\* C5: absent disposal, a load sequence stops after a failed attempt only by
\* running the fallback, which leaves the key Live with a Local record.
C5_FailuresEndInLocalRecord ==
  (~disposed /\ last.op \in {"retrySkipped", "publishLocal"})
    => /\ last.key \in DOMAIN loaded
       /\ loaded[last.key].prov = "Local"

\* the chunk of the load-stagger timer that fires next in entry i
HeadKey(i) ==
  keyOf(loadTimers[i].list[loadTimers[i].pos].x, loadTimers[i].list[loadTimers[i].pos].z)

\* C6: a loadChunkAt call for a key that is loaded or in flight, or after
\* disposal, starts no attempt, sets no timer and leaves the registry, the
\* scene, the in-flight set and the load queue as they are.
C6_GuardedLoadIsNoOp ==
  [][\A i \in 1..Len(loadTimers) :
       ( /\ loadTimers' = PopLoadTimer(i)
         /\ \/ HeadKey(i) \in DOMAIN loaded
            \/ HeadKey(i) \in inflight
            \/ disposed )
       => UNCHANGED <<loaded, worldGroup, inflight, chunkLoadQueue, attempts,
                      removeTimers>>]_vars

\* a second loadChunkAt for a key in flight has returned: still one attempt
C6_Witness ==
  /\ ~disposed
  /\ last.op = "loadSkipped"
  /\ last.key \in inflight
  /\ NumSequencesOf(last.key) = 1

\* the keys of the load-stagger timers of entry i that have not fired
PendingOf(i) ==
  {keyOf(loadTimers[i].list[j].x, loadTimers[i].list[j].z) :
     j \in loadTimers[i].pos..Len(loadTimers[i].list)}

\* the keys that have a load-stagger timer pending
PendingTimerKeys == UNION {PendingOf(i) : i \in 1..Len(loadTimers)}

\* C7: right after ensureChunksAround(cx, cz), every key of the view square
\* is in the registry, in flight, or has a load-stagger timer pending.
C7_ViewSquareCovered ==
  last.op = "ensure" =>
    {keyOf(lastChunk[1] + dx, lastChunk[2] + dz) :
       dx \in (-VIEW_RADIUS)..VIEW_RADIUS, dz \in (-VIEW_RADIUS)..VIEW_RADIUS}
      \subseteq (DOMAIN loaded \cup inflight \cup PendingTimerKeys)

\* the call met loaded keys and in-flight keys inside the view square and
\* set timers for the others
C7_Witness ==
  /\ last.op = "ensure"
  /\ keyOf(0, 0) \in DOMAIN loaded
  /\ keyOf(1, 0) \in inflight
  /\ keyOf(lastChunk[1] + VIEW_RADIUS, lastChunk[2] - VIEW_RADIUS) \in PendingTimerKeys
  /\ ~(keyOf(0, 0) \in PendingTimerKeys)

Chebyshev(c, d) ==
  IF Abs(c[1] - d[1]) > Abs(c[2] - d[2]) THEN Abs(c[1] - d[1]) ELSE Abs(c[2] - d[2])

\* the loaded chunks farther than VIEW_RADIUS + 1 from the camera chunk
FarLoaded ==
  {keyOf(c[1], c[2]) : c \in {d \in SampleLoaded :
      /\ keyOf(d[1], d[2]) \in DOMAIN loaded
      /\ Chebyshev(d, lastChunk) > VIEW_RADIUS + 1}}

\* C8: right after ensureChunksAround(cx, cz), the call has set one removal
\* timer for each registry key farther than VIEW_RADIUS + 1 (Chebyshev) from
\* (cx, cz), and none for any other key.
C8_RemovalsAreTheFarKeys ==
  last.op = "ensure" =>
    removeTimers = SetToBag({[key |-> k, at |-> lastChunk] : k \in FarLoaded})

\* the call met a far chunk, which got a timer, and a chunk at distance
\* VIEW_RADIUS + 1, which got none
C8_Witness ==
  /\ last.op = "ensure"
  /\ FarLoaded # {}
  /\ \E c \in SampleLoaded :
       /\ keyOf(c[1], c[2]) \in DOMAIN loaded
       /\ Chebyshev(c, lastChunk) = VIEW_RADIUS + 1
       /\ \A t \in BagToSet(removeTimers) : t.key # keyOf(c[1], c[2])

\* the squared distance of a scheduled chunk from the camera chunk
Dist2(c) ==
  (c.x - lastChunk[1]) * (c.x - lastChunk[1]) + (c.z - lastChunk[2]) * (c.z - lastChunk[2])

\* C9 as stated: the load-stagger timers of one call are in non-decreasing
\* order of dx^2 + dz^2 from the camera chunk.
C9_OrderedByDistance ==
  last.op = "ensure" =>
    \A b \in 1..Len(loadTimers) :
      \A i \in 1..(Len(loadTimers[b].list) - 1) :
        Dist2(loadTimers[b].list[i]) <= Dist2(loadTimers[b].list[i + 1])

Clamped(c) ==
  IF Dist2(c) < VIEW_RADIUS * VIEW_RADIUS THEN Dist2(c) ELSE VIEW_RADIUS * VIEW_RADIUS

\* C9 amended: the load-stagger timers of one call are in non-increasing
\* order of priority max(0, VIEW_RADIUS - sqrt(dx^2 + dz^2)), that is in
\* non-decreasing order of dx^2 + dz^2 among the chunks nearer than
\* VIEW_RADIUS, followed by the chunks at distance VIEW_RADIUS or more in scan
\* order (dz outer, dx inner); chunks of equal priority keep their scan order;
\* the camera's own chunk comes first when it is scheduled, and an axial
\* neighbour comes before every chunk at a larger distance.
C9_OrderedByPriority ==
  last.op = "ensure" =>
    \A b \in 1..Len(loadTimers) :
      LET list == loadTimers[b].list
      IN  /\ \A i \in 1..(Len(list) - 1) :
               /\ Clamped(list[i]) <= Clamped(list[i + 1])
               /\ Clamped(list[i]) = Clamped(list[i + 1])
                    => \/ list[i].z < list[i + 1].z
                       \/ list[i].z = list[i + 1].z /\ list[i].x < list[i + 1].x
               /\ Dist2(list[i + 1]) # 0
               /\ Dist2(list[i + 1]) = 1 => Dist2(list[i]) <= 1

\* the camera entered an empty world: the whole view square is scheduled,
\* the camera's chunk first, then the four axial neighbours
C9_Witness ==
  /\ last.op = "ensure"
  /\ loaded = EmptyMap
  /\ inflight = {}
  /\ Len(loadTimers) = 1
  /\ Len(loadTimers[1].list) = (2 * VIEW_RADIUS + 1) * (2 * VIEW_RADIUS + 1)
  /\ Dist2(loadTimers[1].list[1]) = 0
  /\ \A i \in 2..5 : Dist2(loadTimers[1].list[i]) = 1

\* the camera went one chunk east of InitChunk, every load succeeded and
\* nothing is pending
EastDone ==
  /\ pc = "running"
  /\ ~disposed
  /\ camera = <<InitChunk[1] + 1, InitChunk[2]>>
  /\ nEnsure = 1
  /\ nFail = 0
  /\ attempts = EmptyBag
  /\ loadTimers = << >>
  /\ removeTimers = EmptyBag

\* C10 as stated: after the step east the column at -VIEW_RADIUS is gone and
\* the registry holds (2 * VIEW_RADIUS + 1)^2 records again.
C10_SameCountAfterStep ==
  EastDone =>
    /\ Cardinality(DOMAIN loaded) = (2 * EastRadius + 1) * (2 * EastRadius + 1)
    /\ \A dz \in (-EastRadius)..EastRadius :
         ~(keyOf(InitChunk[1] - EastRadius, InitChunk[2] + dz) \in DOMAIN loaded)

\* C10 amended: after the step east the column at VIEW_RADIUS + 1 is loaded
\* and the column at -VIEW_RADIUS, at Chebyshev distance VIEW_RADIUS + 1 from
\* the camera, is kept: the registry holds (2 * VIEW_RADIUS + 1) *
\* (2 * VIEW_RADIUS + 2) records, 12 for VIEW_RADIUS = 1.
C10_ColumnAddedNoneEvicted ==
  EastDone =>
    /\ DOMAIN loaded =
         {keyOf(InitChunk[1] + dx, InitChunk[2] + dz) :
            dx \in (-EastRadius)..(EastRadius + 1), dz \in (-EastRadius)..EastRadius}
    /\ Cardinality(DOMAIN loaded) = (2 * EastRadius + 1) * (2 * EastRadius + 2)
    /\ worldGroup = {loaded[k] : k \in DOMAIN loaded}

\* the last of the new column's loads has published its record
C10_Witness ==
  /\ EastDone
  /\ last.op = "publishRemote"
  /\ KeyCoords(last.key)[1] = InitChunk[1] + EastRadius + 1

\* C11: in every state after disposal no load-stagger timer, removal timer
\* or retry timer is pending, and no attempt has a request outstanding (with
\* its 10 s abort timer) or a body being read.
C11_DisposalCancelsPendingWork ==
  disposed => /\ loadTimers = << >>
              /\ removeTimers = EmptyBag
              /\ attempts = EmptyBag

\* C12: a materializer failure ends the load sequence: the step that catches
\* it sets no retry timer and does not run the fallback, and it leaves the
\* key out of the registry and out of the in-flight set.
C12_MaterializeErrorNotRetried ==
  last.err = "materialize" =>
    /\ ~(last.op \in {"retryScheduled", "publishLocal", "fallbackDropped"})
    /\ \A a \in SequencesOf(last.key) : a.pc # "backoff"
    /\ ~(last.key \in DOMAIN loaded)
    /\ ~(last.key \in inflight)

\* the keys within the view radius of the camera's current chunk
Desired == ViewKeys(cfg.radius, camera)

\* C13: no record is published for a key that is outside the view square of
\* the camera's current chunk: a load whose key left the desired set before
\* its data was materialized has been cancelled.
C13_LeftDesiredSetNeverPublished ==
  (~disposed /\ last.op \in {"publishRemote", "publishLocal"})
    => last.key \in Desired

\* C14: no step starts a fetch attempt (a first attempt or a retry) or runs
\* the fallback generator for a key that has a record in the registry.
C14_NoLoadActivityWhileLive ==
  [][last'.op \in {"load", "retry", "publishLocal", "fallbackDropped"}
       => ~(last'.key \in DOMAIN loaded)]_vars

\* C15: the retry counts of a load sequence are 0, 1, 2, 3 in that order:
\* loadChunkAt starts the attempt with count 0, a retry timer starts the
\* attempt with the next count, and no attempt has a count above 3.  The step
\* that runs the fallback ends the sequence with the failed attempt, and
\* before disposal that attempt has count 3.
C15_AttemptsAndFallback ==
  [][/\ \A a \in BagToSet(attempts') : a.retryCount \in 0..maxRetries
     /\ last'.op = "load" =>
          attempts' = attempts (+)
            SetToBag({[key |-> last'.key, retryCount |-> 0, pc |-> "fetch"]})
     /\ last'.op = "retry" =>
          \E a \in BagToSet(attempts) :
            /\ a.pc = "backoff"
            /\ a.key = last'.key
            /\ attempts' = (attempts (-) SetToBag({a})) (+)
                 SetToBag({[key |-> a.key, retryCount |-> a.retryCount + 1,
                            pc |-> "fetch"]})
     /\ last'.op \in {"publishLocal", "fallbackDropped"} =>
          \E a \in BagToSet(attempts) :
            /\ a.pc \in {"fetch", "body"}
            /\ a.key = last'.key
            /\ attempts' = attempts (-) SetToBag({a})
            /\ ~disposed => a.retryCount = maxRetries]_vars

\* before disposal a sequence has failed four times and its fallback has
\* published a Local record
C15_Witness ==
  /\ ~disposed
  /\ last.op = "publishLocal"
  /\ last.key \in DOMAIN loaded
  /\ loaded[last.key].prov = "Local"
  /\ nFail = RetryFail

\* C16: with every fetch settling and every timer firing, a key that is in
\* the in-flight set eventually is out of it, in the registry (Live) or not
\* (Idle).
C16_EveryLoadTerminates ==
  \A k \in CameraKeys : (k \in inflight) ~> ~(k \in inflight)

\* before disposal every load has ended, one of them after a failed attempt:
\* nothing is in flight, a key is Live and a key that was requested is Idle
C16_Witness ==
  /\ ~disposed
  /\ nFail >= 1
  /\ attempts = EmptyBag
  /\ loadTimers = << >>
  /\ inflight = {}
  /\ loaded # EmptyMap
  /\ ~(keyOf(InitChunk[1], InitChunk[2]) \in DOMAIN loaded)

\* C17: in every state no key is both in the registry `loaded` and in the
\* in-flight set.
C17_LiveAndInflightDisjoint ==
  DOMAIN loaded \cap inflight = {}

\* a record was published while another sequence of the same key was still
\* active and another load was in flight
C17_Witness ==
  /\ ~disposed
  /\ last.op = "publishRemote"
  /\ last.key \in DOMAIN loaded
  /\ NumSequencesOf(last.key) >= 1
  /\ inflight # {}

\* C18: ensureChunksAround is never run twice in a row for the same chunk
\* coordinate, the call made at start-up included: the first frame's call is
\* for another chunk than the start-up call, and every later call is for
\* another chunk than the last-observed one.
C18_NeverTwiceForSameChunk ==
  [][nEnsure' = nEnsure + 1 =>
       /\ (pc = "frame0" => last'.key # last.key)
       /\ (lastChunk # "NaN" => lastChunk' # lastChunk)]_vars

\* C19: before disposal, every load sequence that has a fetch outstanding, a
\* body being read or a retry timer pending has its key in the in-flight set.
C19_ActiveSequenceIsInflight ==
  ~disposed => \A a \in BagToSet(attempts) : a.key \in inflight

\* C20 as stated: a removal timer removes a record only if, when it fires,
\* the key is farther than VIEW_RADIUS + 1 (Chebyshev) from the camera's
\* current chunk.
C20_RemovedIsFarFromCamera ==
  last.op = "pruned" => Chebyshev(KeyCoords(last.key), camera) > cfg.radius + 1

\* C20 amended: a removal timer removes a record only if the key was farther
\* than VIEW_RADIUS + 1 (Chebyshev) from the camera chunk of the
\* ensureChunksAround call that set the timer, and the key is in the registry
\* when the timer fires; it then detaches the record's group and deletes the
\* record, wherever the camera is by then.
C20_RemovedWasFarWhenScheduled ==
  [][\A t \in BagToSet(removeTimers) :
       (removeTimers' = removeTimers (-) SetToBag({t}) /\ loaded' # loaded)
         => /\ Chebyshev(KeyCoords(t.key), t.at) > cfg.radius + 1
            /\ t.key \in DOMAIN loaded
            /\ loaded' = MapDelete(loaded, t.key)
            /\ worldGroup' = worldGroup \ {loaded[t.key]}]_vars

\* a removal timer set when the camera was two chunks away has removed a
\* record after the camera came back within the keep range of its key
C20_Witness ==
  /\ ~disposed
  /\ last.op = "pruned"
  /\ Chebyshev(KeyCoords(last.key), camera) <= cfg.radius + 1
  /\ ~(last.key \in DOMAIN loaded)

====
